---- MODULE Spec2Model ----
(***************************************************************************)
(* A model of laspy's header codec (src/laspy/header.py): Version,         *)
(* GlobalEncoding and LasHeader with its constructor, mutators, update,    *)
(* partial_reset, read_from and write_to.                                  *)
(*                                                                         *)
(* Conventions.                                                            *)
(*  - A str is the sequence of its character codes; bytes are sequences of *)
(*    numbers 0..255.  A stream is a sequence of items; an item is a byte  *)
(*    or one serialized VLR (the VLR list's byte layout belongs to         *)
(*    laspy.vlrs, so a VLR on a stream is kept whole, with its byte size). *)
(*  - A Python int that can exceed 2^31 (point_count) is a BigNat: the     *)
(*    little-endian sequence of its base-256 digits, without leading       *)
(*    zeros.                                                               *)
(*  - A float64 is a fixed-point number, counted in hundredths (the        *)
(*    default scale 0.01 is 1).                                            *)
(*  - PointFormat objects live in a heap (pfs) and headers hold            *)
(*    references, as Python objects do.                                    *)
(***************************************************************************)
EXTENDS Integers, Sequences, FiniteSets, TLC

VARIABLES
    pfs,     \* heap of PointFormat objects; reference 0 is LasHeader.DEFAULT_POINT_FORMAT
    hdrs,    \* the program's LasHeader objects
    stream,  \* the byte stream write_to writes and read_from reads
    today,   \* what date.today() returns
    last,    \* the last call: its name, arguments and outcome
    fed      \* history: per header, the return numbers of the points given to
             \* update since the header was constructed or partially reset

vars == <<pfs, hdrs, stream, today, last, fed>>

\* ------------------------------------------------------------------ bounds

NumHeaders == 2
MaxExtraDims == 2
MaxBatch == 2
MaxPoints == 3
MaxDays == 1

HdrIds == 1..NumHeaders
PFRefs == 0..(NumHeaders + 1)

\* ------------------------------------------------------------- basic helpers

RECURSIVE SeqSum(_)
SeqSum(s) == IF s = <<>> THEN 0 ELSE Head(s) + SeqSum(Tail(s))

SelectSeqBy(s, Test(_)) == SelectSeq(s, Test)

Zeros(n) == [i \in 1..n |-> 0]

\* n times the number 0 as a BigNat (a little-endian sequence of base-256
\* digits without leading zeros; 0 is the empty sequence)
BigZeros(n) == [i \in 1..n |-> <<>>]

Max2(a, b) == IF a >= b THEN a ELSE b
Min2(a, b) == IF a <= b THEN a ELSE b

\* ASCII character codes of the default strings
StrOTHER == <<79, 84, 72, 69, 82>>
Strlaspy == <<108, 97, 115, 112, 121>>

\* ------------------------------------------------------------------ Version

Version(major, minor) == [major |-> major, minor |-> minor]

\* str(version) is "major.minor"; the pair stands for that string
VersionStr(v) == <<v.major, v.minor>>

from_str(s) == Version(s[1], s[2])

Versions == {Version(1, m) : m \in 1..4}

\* ---------------------------------------------- laspy.point.dims (the oracle)

PointFormatIds == 0..10

VERSION_TO_POINT_FMT(s) ==
    CASE s = <<1, 1>> -> {0, 1}
      [] s = <<1, 2>> -> {0, 1, 2, 3}
      [] s = <<1, 3>> -> {0, 1, 2, 3, 4, 5}
      [] s = <<1, 4>> -> 0..10
      [] OTHER -> {}

is_version_compatible_with_point_format(fmt_id, s) == fmt_id \in VERSION_TO_POINT_FMT(s)

\* TRUE when raise_if_version_not_compatible_with_fmt raises
raise_if_version_not_compatible_with_fmt(fmt_id, s) ==
    ~is_version_compatible_with_point_format(fmt_id, s)

min_point_format_for_version(s) ==
    CHOOSE f \in VERSION_TO_POINT_FMT(s) : \A g \in VERSION_TO_POINT_FMT(s) : f <= g

preferred_file_version_for_point_format(fmt_id) ==
    IF fmt_id <= 3 THEN <<1, 2>> ELSE IF fmt_id <= 5 THEN <<1, 3>> ELSE <<1, 4>>

\* ------------------------------------------- laspy.point.format (PointFormat)

NoPF == [alive |-> FALSE]

PointFormat(fmt_id) == [alive |-> TRUE, id |-> fmt_id, extra_dims |-> <<>>]

BasePointSize(fmt_id) ==
    CASE fmt_id = 0 -> 20 [] fmt_id = 1 -> 28 [] fmt_id = 2 -> 26 [] fmt_id = 3 -> 34
      [] fmt_id = 4 -> 57 [] fmt_id = 5 -> 63 [] fmt_id = 6 -> 30 [] fmt_id = 7 -> 36
      [] fmt_id = 8 -> 38 [] fmt_id = 9 -> 59 [] fmt_id = 10 -> 67

ScalarTypes == <<"u1", "i1", "u2", "i2", "u4", "i4", "u8", "i8", "f4", "f8">>

ScalarIndex(t) == CHOOSE i \in 1..Len(ScalarTypes) : ScalarTypes[i] = t

ScalarSize(t) ==
    CASE t \in {"u1", "i1"} -> 1 [] t \in {"u2", "i2"} -> 2
      [] t \in {"u4", "i4", "f4"} -> 4 [] t \in {"u8", "i8", "f8"} -> 8

\* An extra dimension (and the ExtraBytesParams it is made from): scales and
\* offsets are <<>> for None.
ExtraBytesParams(name, type, num_elements, description, offsets, scales) ==
    [name |-> name, type |-> type, num_elements |-> num_elements,
     description |-> description, offsets |-> offsets, scales |-> scales]

\* type_str() is "<n><scalar>", or "<scalar>" when n = 1; the pair stands for it
type_str(dim) == <<dim.num_elements, dim.type>>

DimSize(dim) == dim.num_elements * ScalarSize(dim.type)

PointFormatSize(pf) ==
    BasePointSize(pf.id) + SeqSum([i \in 1..Len(pf.extra_dims) |-> DimSize(pf.extra_dims[i])])

add_extra_dimension(pf, param) == [pf EXCEPT !.extra_dims = Append(@, param)]

RECURSIVE add_extra_dimensions(_, _)
add_extra_dimensions(pf, params) ==
    IF params = <<>> THEN pf
    ELSE add_extra_dimensions(add_extra_dimension(pf, Head(params)), Tail(params))

\* ------------------------------------------------ laspy.extradims, laspy.vlrs

get_id_for_extra_dim_type(ts) == ScalarIndex(ts[2]) + 10 * (ts[1] - 1)

ExtraBytesStruct(name, description) ==
    [name |-> name, description |-> description, data_type |-> 0, options |-> 0,
     scale_is_relevant |-> FALSE, offset_is_relevant |-> FALSE,
     scale |-> Zeros(3), offset |-> Zeros(3)]

ExtraBytesVlr(structs) == [kind |-> "ExtraBytesVlr", extra_bytes_structs |-> structs]

OtherVlr(record_id, payload_len) ==
    [kind |-> "Other", record_id |-> record_id, payload_len |-> payload_len]

IsKind(vlr, kind) == vlr.kind = kind

\* VLRList.get(kind): the records of that kind, in order
VlrGet(vlrs, kind) == LET T(v) == IsKind(v, kind) IN SelectSeqBy(vlrs, T)

\* VLRList.extract(kind): removes every record of that kind; what is left
VlrExtract(vlrs, kind) == LET T(v) == ~IsKind(v, kind) IN SelectSeqBy(vlrs, T)

\* ------------------------------------------------------------ the header

NoHeader == [alive |-> FALSE]

NoDate == [year |-> 0, yday |-> 0]

\* The fields LasHeader.__init__ sets, before the Extra-Bytes synchronization
NewHeader(version, pfref) ==
    [alive |-> TRUE,
     file_source_id |-> 0,
     global_encoding |-> 0,
     uuid |-> Zeros(16),
     version |-> version,
     system_identifier |-> StrOTHER,
     generating_software |-> Strlaspy,
     point_format |-> pfref,
     creation_date |-> today,
     point_count |-> <<>>,
     scales |-> <<1, 1, 1>>,
     offsets |-> Zeros(3),
     maxs |-> Zeros(3),
     mins |-> Zeros(3),
     number_of_points_by_return |-> BigZeros(15),
     vlrs |-> <<>>,
     extra_header_bytes |-> <<>>,
     extra_vlr_bytes |-> <<>>,
     start_of_waveform_data_packet_record |-> 0,
     start_of_first_evlr |-> 0,
     number_of_evlrs |-> 0,
     offset_to_point_data |-> 0,
     are_points_compressed |-> FALSE]

\* One sub-record of the Extra-Bytes VLR, as the loop body of
\* _sync_extra_bytes_vlr builds it
eb_struct_of(extra_dimension) ==
    LET ts == type_str(extra_dimension)
        undocumented == extra_dimension.num_elements > 3 /\ ts[2] = "u1"
        n == extra_dimension.num_elements
        copy(vals) == [i \in 1..3 |-> IF i <= n /\ i <= Len(vals) THEN vals[i] ELSE 0]
    IN [ExtraBytesStruct(extra_dimension.name, extra_dimension.description) EXCEPT
          !.options = IF undocumented THEN n ELSE 0,
          !.data_type = IF undocumented THEN 0 ELSE get_id_for_extra_dim_type(ts),
          !.scale_is_relevant = (extra_dimension.scales # <<>>),
          !.scale = IF extra_dimension.scales # <<>> THEN copy(extra_dimension.scales) ELSE @,
          !.offset_is_relevant = (extra_dimension.offsets # <<>>),
          !.offset = IF extra_dimension.offsets # <<>> THEN copy(extra_dimension.offsets) ELSE @]

\* A mutant of _sync_extra_bytes_vlr: the stale record is not extracted first
sync_without_extract(P, hdr) ==
    LET extra_dimensions == P[hdr.point_format].extra_dims
    IN IF extra_dimensions = <<>> THEN hdr
       ELSE [hdr EXCEPT !.vlrs = Append(@, ExtraBytesVlr(
                [i \in 1..Len(extra_dimensions) |-> eb_struct_of(extra_dimensions[i])]))]

_sync_extra_bytes_vlr(P, hdr) ==
    LET kept == VlrExtract(hdr.vlrs, "ExtraBytesVlr")
        extra_dimensions == P[hdr.point_format].extra_dims
    IN IF extra_dimensions = <<>> THEN [hdr EXCEPT !.vlrs = kept]
       ELSE [hdr EXCEPT !.vlrs = Append(kept, ExtraBytesVlr(
                [i \in 1..Len(extra_dimensions) |-> eb_struct_of(extra_dimensions[i])]))]

\* ------------------------------------------------------------ the heap

\* The lowest free reference: where the next PointFormat(...) is allocated
Alloc(P) == CHOOSE r \in PFRefs : ~P[r].alive /\ \A q \in PFRefs : q < r => P[q].alive

\* Garbage collection: an object no header refers to is gone (the class
\* attribute DEFAULT_POINT_FORMAT is always referred to)
Collect(P, H) ==
    [r \in PFRefs |->
        IF r = 0 \/ \E h \in HdrIds : H[h].alive /\ H[h].point_format = r THEN P[r] ELSE NoPF]

\* What a call returns: whether it raised, and the heap and headers it leaves
Raised(err, P, H) == [ok |-> FALSE, err |-> err, pfs |-> P, hdrs |-> H]
Returned(P, H) == [ok |-> TRUE, err |-> "", pfs |-> P, hdrs |-> H]

\* --------------------------------------------- constructor and the mutators

\* An optional argument: version is [given, v]; point_format is [kind, v] with
\* kind "none", "int" (an id) or "obj" (a reference to a PointFormat object)
NoVersion == [given |-> FALSE, v |-> Version(0, 0)]
GivenVersion(v) == [given |-> TRUE, v |-> v]
NoPointFormat == [kind |-> "none", v |-> 0]
PointFormatInt(fmt_id) == [kind |-> "int", v |-> fmt_id]
PointFormatObj(ref) == [kind |-> "obj", v |-> ref]

\* The PointFormat object an argument denotes: the heap after a PointFormat(int)
\* is allocated for an int, and the reference
ResolvePF(P, arg) ==
    IF arg.kind = "int"
    THEN [pfs |-> [P EXCEPT ![Alloc(P)] = PointFormat(arg.v)], ref |-> Alloc(P)]
    ELSE [pfs |-> P, ref |-> arg.v]

\* LasHeader.__init__(version, point_format), building header h
LasHeader_init(P, H, h, version, point_format) ==
    LET r0 == ResolvePF(P, point_format)
        both_none == ~version.given /\ point_format.kind = "none"
        r1 == IF both_none THEN [pfs |-> P, ref |-> 0]
              ELSE IF point_format.kind = "none"
              THEN ResolvePF(P, PointFormatInt(min_point_format_for_version(VersionStr(version.v))))
              ELSE r0
        ver == IF both_none THEN Version(1, 2)
               ELSE IF ~version.given
               THEN from_str(preferred_file_version_for_point_format(r1.pfs[r1.ref].id))
               ELSE version.v
    IN IF raise_if_version_not_compatible_with_fmt(r1.pfs[r1.ref].id, VersionStr(ver))
       THEN Raised("IncompatibleFormat", P, H)
       ELSE Returned(r1.pfs, [H EXCEPT ![h] = _sync_extra_bytes_vlr(r1.pfs, NewHeader(ver, r1.ref))])

\* A mutant of the point_format setter: the new format is not checked
point_format_setter_unchecked(P, H, h, ref) ==
    Returned(P, [H EXCEPT ![h] = _sync_extra_bytes_vlr(P, [H[h] EXCEPT !.point_format = ref])])

\* header.point_format = new_point_format (the object at ref)
point_format_setter(P, H, h, ref) ==
    IF raise_if_version_not_compatible_with_fmt(P[ref].id, VersionStr(H[h].version))
    THEN Raised("IncompatibleFormat", P, H)
    ELSE Returned(P, [H EXCEPT ![h] = _sync_extra_bytes_vlr(P, [H[h] EXCEPT !.point_format = ref])])

\* header.version = version
version_setter(P, H, h, version) ==
    IF raise_if_version_not_compatible_with_fmt(P[H[h].point_format].id, VersionStr(version))
    THEN Raised("IncompatibleFormat", P, H)
    ELSE Returned(P, [H EXCEPT ![h].version = version])

set_version_and_point_format(P, H, h, version, ref) ==
    IF raise_if_version_not_compatible_with_fmt(P[ref].id, VersionStr(version))
    THEN Raised("IncompatibleFormat", P, H)
    ELSE point_format_setter(P, [H EXCEPT ![h].version = version], h, ref)

add_extra_dims(P, H, h, params) ==
    LET ref == H[h].point_format
        P1 == [P EXCEPT ![ref] = add_extra_dimensions(@, params)]
    IN Returned(P1, [H EXCEPT ![h] = _sync_extra_bytes_vlr(P1, @)])

add_extra_dim(P, H, h, param) == add_extra_dims(P, H, h, <<param>>)

\* ----------------------------------------------------------- GlobalEncoding

\* Bitwise operations on 16-bit values
RECURSIVE BitOp(_, _, _, _)
BitOp(Op(_, _), a, b, n) ==
    IF n = 0 THEN 0
    ELSE Op(a % 2, b % 2) + 2 * BitOp(Op, a \div 2, b \div 2, n - 1)

BitAnd(a, b) == LET op(x, y) == x * y IN BitOp(op, a, b, 16)
BitOr(a, b) == LET op(x, y) == IF x + y > 0 THEN 1 ELSE 0 IN BitOp(op, a, b, 16)
BitXor(a, b) == LET op(x, y) == (x + y) % 2 IN BitOp(op, a, b, 16)

GPS_TIME_TYPE_MASK == 1
WAVEFORM_INTERNAL_MASK == 2
WAVEFORM_EXTERNAL_MASK == 4
SYNTHETIC_RETURN_NUMBERS_MASK == 8
WKT_MASK == 16

WEEK_TIME == 0
STANDARD == 1

\* A mutant of _set_bit: the mask is assigned, not or-ed in
set_bit_assign(value, mask) == mask

_set_bit(value, mask) == BitOr(value, mask)

_unset_bit(value, mask) == BitXor(value, mask)

_set_if_true(value, mask, v) ==
    IF v THEN _set_bit(value, mask) ELSE _unset_bit(value, mask)

gps_time_type(value) == BitAnd(value, GPS_TIME_TYPE_MASK)

gps_time_type_setter(value, v) ==
    BitOr(BitXor(value, GPS_TIME_TYPE_MASK), BitAnd(v, GPS_TIME_TYPE_MASK))

\* The four boolean views, by mask: the getter and the setter
flag_getter(value, mask) == BitAnd(value, mask) # 0

flag_setter(value, mask, v) == _set_if_true(value, mask, v)

FlagMasks ==
    {WAVEFORM_INTERNAL_MASK, WAVEFORM_EXTERNAL_MASK, SYNTHETIC_RETURN_NUMBERS_MASK, WKT_MASK}

\* ------------------------------------------------------- bytes and numbers

\* int.to_bytes(n, w, "little") of a number that fits
RECURSIVE to_bytes(_, _)
to_bytes(n, w) == IF w = 0 THEN <<>> ELSE <<n % 256>> \o to_bytes(n \div 256, w - 1)

\* whether to_bytes(n, w) raises OverflowError (the model's numbers are < 2^31)
Overflows(n, w) == n < 0 \/ (w = 1 /\ n > 255) \/ (w = 2 /\ n > 65535)

\* int.from_bytes(bs, "little")
RECURSIVE from_bytes(_)
from_bytes(bs) == IF bs = <<>> THEN 0 ELSE Head(bs) + 256 * from_bytes(Tail(bs))

\* A BigNat is normalized: its last digit is not 0
RECURSIVE big_from_bytes(_)
big_from_bytes(bs) ==
    IF bs = <<>> \/ bs[Len(bs)] # 0 THEN bs ELSE big_from_bytes(SubSeq(bs, 1, Len(bs) - 1))

BigOverflows(n, w) == Len(n) > w

big_to_bytes(n, w) == n \o Zeros(w - Len(n))

RECURSIVE BigGreater(_, _)
BigGreater(a, b) ==
    IF Len(a) # Len(b) THEN Len(a) > Len(b)
    ELSE IF a = <<>> THEN FALSE
    ELSE IF a[Len(a)] # b[Len(b)] THEN a[Len(a)] > b[Len(b)]
    ELSE BigGreater(SubSeq(a, 1, Len(a) - 1), SubSeq(b, 1, Len(b) - 1))

\* a + k for a small k >= 0
RECURSIVE BigAdd(_, _)
BigAdd(a, k) ==
    IF k = 0 THEN a
    ELSE IF a = <<>> THEN <<k % 256>> \o BigAdd(<<>>, k \div 256)
    ELSE <<(Head(a) + k) % 256>> \o BigAdd(Tail(a), (Head(a) + k) \div 256)

\* np.iinfo(np.uint32).max
UINT32_MAX == <<255, 255, 255, 255>>

\* struct.pack("<d", x): 8 bytes, sign in the top bit and the magnitude below
\* it (the fixed-point number's digits stand for the IEEE 754 fields)
pack_d(x) == to_bytes(IF x < 0 THEN -x ELSE x, 7) \o <<IF x < 0 THEN 128 ELSE 0>>

unpack_d(bs) ==
    (IF bs[8] >= 128 THEN -1 ELSE 1) * from_bytes(SubSeq(bs, 1, 7))

\* str.encode("ascii") raises on a character above 127; bytes.decode() on a
\* byte above 127
NotAscii(s) == \E i \in 1..Len(s) : s[i] > 127

ljust(bs, w) == bs \o Zeros(IF Len(bs) < w THEN w - Len(bs) ELSE 0)

\* bytes.rstrip(b"\0")
RECURSIVE rstrip(_)
rstrip(bs) ==
    IF bs = <<>> \/ bs[Len(bs)] # 0 THEN bs ELSE rstrip(SubSeq(bs, 1, Len(bs) - 1))

\* UUID.bytes_le of the 16 bytes of a UUID, and UUID(bytes_le=...): the first
\* three fields are byte-swapped
bytes_le(u) == <<u[4], u[3], u[2], u[1], u[6], u[5], u[8], u[7]>> \o SubSeq(u, 9, 16)

\* datetime.date: year and day of the year
IsLeap(y) == (y % 4 = 0 /\ y % 100 # 0) \/ y % 400 = 0
DaysIn(y) == IF IsLeap(y) THEN 366 ELSE 365

\* date(year, 1, 1) + timedelta(yday - 1): kind "date", or "ValueError" (the
\* year is no year of a date) or "OverflowError" (the sum is out of range)
RECURSIVE date_from_yday(_, _)
date_from_yday(year, yday) ==
    IF year < 1 \/ year > 9999 THEN [kind |-> "ValueError", date |-> NoDate]
    ELSE IF yday = 0
    THEN IF year = 1 THEN [kind |-> "OverflowError", date |-> NoDate]
         ELSE [kind |-> "date", date |-> [year |-> year - 1, yday |-> DaysIn(year - 1)]]
    ELSE IF yday <= DaysIn(year) THEN [kind |-> "date", date |-> [year |-> year, yday |-> yday]]
    ELSE IF year = 9999 THEN [kind |-> "OverflowError", date |-> NoDate]
    ELSE date_from_yday(year + 1, yday - DaysIn(year))

\* ------------------------------------------------------ laspy.compression

is_point_format_compressed(fmt_id) == BitAnd(fmt_id, 128) # 0 /\ BitAnd(fmt_id, 64) = 0
compressed_id_to_uncompressed(fmt_id) == BitAnd(fmt_id, 63)
uncompressed_id_to_compressed(fmt_id) == BitOr(fmt_id, 128)

\* ------------------------------------------------- VLRs on a stream

\* The byte size of a serialized VLR: a 54-byte header and the payload, 192
\* bytes for each sub-record of an Extra-Bytes VLR
VlrSize(vlr) ==
    54 + (IF vlr.kind = "ExtraBytesVlr" THEN 192 * Len(vlr.extra_bytes_structs)
          ELSE vlr.payload_len)

VlrsSize(vlrs) == SeqSum([i \in 1..Len(vlrs) |-> VlrSize(vlrs[i])])

\* ExtraBytesVlr.type_of_extra_dims(): the ExtraBytesParams of each sub-record
params_of_struct(st) ==
    LET n == IF st.data_type = 0 THEN st.options ELSE ((st.data_type - 1) \div 10) + 1
        t == IF st.data_type = 0 THEN "u1" ELSE ScalarTypes[((st.data_type - 1) % 10) + 1]
        first(vals) == SubSeq(vals, 1, Min2(n, 3))
    IN ExtraBytesParams(rstrip(st.name), t, n, rstrip(st.description),
                        IF st.offset_is_relevant THEN first(st.offset) ELSE <<>>,
                        IF st.scale_is_relevant THEN first(st.scale) ELSE <<>>)

type_of_extra_dims(vlr) ==
    [i \in 1..Len(vlr.extra_bytes_structs) |-> params_of_struct(vlr.extra_bytes_structs[i])]

\* ------------------------------------------------------------------ write_to

LAS_FILE_SIGNATURE == <<76, 65, 83, 70>>

\* LAS_HEADERS_SIZE[str(version)]; -1 stands for a KeyError
LAS_HEADERS_SIZE(s) ==
    CASE s = <<1, 1>> -> 227
      [] s = <<1, 2>> -> 227
      [] s = <<1, 3>> -> 235
      [] s = <<1, 4>> -> 375
      [] OTHER -> -1

\* What one run of stream.write calls puts on the stream, or the error raised
\* before anything of it is written
Seg(bytes) == [err |-> "", bytes |-> bytes]
Fail(err) == [err |-> err, bytes |-> <<>>]

IntSeg(n, w) == IF Overflows(n, w) THEN Fail("OverflowError") ELSE Seg(to_bytes(n, w))

\* a 32-byte identifier: ASCII-encoded, cut to 32 bytes or NUL-padded
StrSeg(s) ==
    IF NotAscii(s) THEN Fail("UnicodeEncodeError")
    ELSE IF Len(s) > 32 THEN Seg(SubSeq(s, 1, 32))
    ELSE Seg(ljust(s, 32))

RECURSIVE Flatten(_)
Flatten(ss) == IF ss = <<>> THEN <<>> ELSE Head(ss) \o Flatten(Tail(ss))

\* A mutant of point_count_segment: the legacy fields always hold the count
\* and the first five return counts, cut to 4 bytes
point_count_segment_always_legacy(hdr) ==
    Seg(SubSeq(big_to_bytes(hdr.point_count, 8), 1, 4)
        \o Flatten([i \in 1..5 |-> big_to_bytes(hdr.number_of_points_by_return[i], 4)]))

\* "# Point Count": the legacy 4-byte count and five 4-byte return counts
point_count_segment(hdr) ==
    IF hdr.version.minor >= 4 THEN Seg(Zeros(4) \o Zeros(20))
    ELSE IF BigGreater(hdr.point_count, UINT32_MAX) THEN Fail("PointCountOverflow")
    ELSE Seg(big_to_bytes(hdr.point_count, 4)
             \o Flatten([i \in 1..5 |-> big_to_bytes(hdr.number_of_points_by_return[i], 4)]))

\* A mutant of doubles_segment: each axis writes its min before its max
doubles_segment_min_first(hdr) ==
    Seg(Flatten([i \in 1..3 |-> pack_d(hdr.scales[i])])
        \o Flatten([i \in 1..3 |-> pack_d(hdr.offsets[i])])
        \o Flatten([i \in 1..3 |-> pack_d(hdr.mins[i]) \o pack_d(hdr.maxs[i])]))

\* scales, offsets, and max and min interleaved per axis
doubles_segment(hdr) ==
    Seg(Flatten([i \in 1..3 |-> pack_d(hdr.scales[i])])
        \o Flatten([i \in 1..3 |-> pack_d(hdr.offsets[i])])
        \o Flatten([i \in 1..3 |-> pack_d(hdr.maxs[i]) \o pack_d(hdr.mins[i])]))

\* the fields of version 1.4: EVLRs, the 8-byte count and 15 return counts
v14_segment(hdr) ==
    IF hdr.version.minor < 4 THEN Seg(<<>>)
    ELSE IF BigOverflows(hdr.point_count, 8) THEN
        Seg(to_bytes(hdr.start_of_first_evlr, 8) \o to_bytes(hdr.number_of_evlrs, 4))
    ELSE Seg(to_bytes(hdr.start_of_first_evlr, 8) \o to_bytes(hdr.number_of_evlrs, 4)
             \o big_to_bytes(hdr.point_count, 8)
             \o Flatten([i \in 1..15 |-> big_to_bytes(hdr.number_of_points_by_return[i], 8)]))

\* The date write_to writes: today when the header has none
DateToWrite(hdr) == IF hdr.creation_date = NoDate THEN today ELSE hdr.creation_date

\* offset_to_point_data as write_to leaves it
OffsetToWrite(hdr, write_vlrs) ==
    IF write_vlrs THEN LAS_HEADERS_SIZE(VersionStr(hdr.version)) + VlrsSize(hdr.vlrs)
    ELSE hdr.offset_to_point_data

\* The writes of write_to, in order
WriteSegments(P, hdr, write_vlrs) ==
    LET header_size == LAS_HEADERS_SIZE(VersionStr(hdr.version))
        pf == P[hdr.point_format]
        point_format_id == IF hdr.are_points_compressed
                           THEN uncompressed_id_to_compressed(pf.id) ELSE pf.id
    IN << Seg(LAS_FILE_SIGNATURE),
          IntSeg(hdr.file_source_id, 2),
          IntSeg(hdr.global_encoding, 2),
          Seg(bytes_le(hdr.uuid)),
          IntSeg(hdr.version.major, 1),
          IntSeg(hdr.version.minor, 1),
          StrSeg(hdr.system_identifier),
          StrSeg(hdr.generating_software),
          IntSeg(DateToWrite(hdr).yday, 2),
          IntSeg(DateToWrite(hdr).year, 2),
          IF header_size = -1 THEN Fail("KeyError") ELSE IntSeg(header_size, 2),
          IntSeg(OffsetToWrite(hdr, write_vlrs), 4),
          IntSeg(Len(hdr.vlrs), 4),
          IntSeg(point_format_id, 1),
          IntSeg(PointFormatSize(pf), 2),
          point_count_segment(hdr),
          doubles_segment(hdr),
          IF hdr.version.minor >= 3
             THEN IntSeg(hdr.start_of_waveform_data_packet_record, 8) ELSE Seg(<<>>),
          v14_segment(hdr),
          IF hdr.version.minor >= 4 /\ BigOverflows(hdr.point_count, 8)
             THEN Fail("OverflowError") ELSE Seg(<<>>),
          Seg(IF write_vlrs THEN hdr.vlrs ELSE <<>>) >>

\* The index of the first write that raises, 0 when none does
FirstError(segs) ==
    IF \A i \in 1..Len(segs) : segs[i].err = "" THEN 0
    ELSE CHOOSE i \in 1..Len(segs) : segs[i].err # "" /\ \A j \in 1..(i - 1) : segs[j].err = ""

\* header.write_to(stream, write_vlrs): the bytes put on the stream, the error
\* raised if any, and the header, whose creation_date and offset_to_point_data
\* write_to may set
write_to(P, hdr, write_vlrs) ==
    LET segs == WriteSegments(P, hdr, write_vlrs)
        e == FirstError(segs)
        n == IF e = 0 THEN Len(segs) ELSE e - 1
        dated == e = 0 \/ e >= 9
        placed == write_vlrs /\ (e = 0 \/ e >= 12 \/ (e = 11 /\ segs[11].err # "KeyError"))
    IN [ok |-> e = 0,
        err |-> IF e = 0 THEN "" ELSE segs[e].err,
        data |-> Flatten([i \in 1..n |-> segs[i].bytes]),
        hdr |-> [hdr EXCEPT
                   !.creation_date = IF dated THEN DateToWrite(hdr) ELSE @,
                   !.offset_to_point_data = IF placed THEN OffsetToWrite(hdr, write_vlrs) ELSE @]]

\* ----------------------------------------------------------------- read_from

\* stream.read(w) at byte offset off: what is there, fewer bytes at the end
Rd(data, off, w) == SubSeq(data, off + 1, Min2(off + w, Len(data)))

\* The widths of the reads of the fixed region, in order: signature, file
\* source id, global encoding, uuid, major, minor, two identifiers, day, year,
\* header size, offset to point data, VLR count, point format id, point size,
\* legacy count, five legacy return counts, and twelve doubles; then what the
\* version adds
BaseWidths ==
    <<4, 2, 2, 16, 1, 1, 32, 32, 2, 2, 2, 4, 4, 1, 2, 4, 4, 4, 4, 4, 4>> \o [i \in 1..12 |-> 8]

ReadWidths(minor) ==
    BaseWidths \o (IF minor >= 3 THEN <<8>> ELSE <<>>)
               \o (IF minor >= 4 THEN <<8, 4, 8>> \o [i \in 1..15 |-> 8] ELSE <<>>)

\* The k-th read of the fixed region
Field(data, W, k) == Rd(data, SeqSum(SubSeq(W, 1, k - 1)), W[k])

ReadFailed(err) == [ok |-> FALSE, err |-> err, pfs |-> <<>>, hdr |-> NoHeader]

\* A mutant of resolve_point_format: the Extra-Bytes VLR is always applied
resolve_point_format_always_apply(fmt_id, point_size, vlrs) ==
    LET eb == VlrGet(vlrs, "ExtraBytesVlr")
    IN IF eb = <<>> THEN [pf |-> PointFormat(fmt_id), vlrs |-> vlrs]
       ELSE [pf |-> add_extra_dimensions(PointFormat(fmt_id), type_of_extra_dims(eb[1])),
             vlrs |-> vlrs]

\* The point format read_from builds from the uncompressed id and the VLRs,
\* and the VLR list it keeps
resolve_point_format(fmt_id, point_size, vlrs) ==
    LET eb == VlrGet(vlrs, "ExtraBytesVlr")
    IN IF eb = <<>> THEN [pf |-> PointFormat(fmt_id), vlrs |-> vlrs]
       ELSE IF point_size = PointFormatSize(PointFormat(fmt_id))
       THEN [pf |-> PointFormat(fmt_id), vlrs |-> VlrExtract(vlrs, "ExtraBytesVlr")]
       ELSE [pf |-> add_extra_dimensions(PointFormat(fmt_id), type_of_extra_dims(eb[1])),
             vlrs |-> vlrs]

\* LasHeader.read_from(stream, seekable); the header's PointFormat is allocated
\* at ref
read_from(P, data, seekable, ref) ==
    LET header == _sync_extra_bytes_vlr(P, NewHeader(Version(1, 2), 0))
        W0 == BaseWidths
        version == Version(from_bytes(Field(data, W0, 5)), from_bytes(Field(data, W0, 6)))
        W == ReadWidths(version.minor)
        F(k) == Field(data, W, k)
        N(k) == from_bytes(F(k))
        created == date_from_yday(N(10), N(9))
        header_size == N(11)
        offset_to_point_data == N(12)
        number_of_vlrs == N(13)
        point_format_id == N(14)
        point_size == N(15)
        v13 == version.minor >= 3
        v14 == version.minor >= 4
        first14 == IF v13 THEN 35 ELSE 34
        fixed_end == Min2(SeqSum(W), Len(data))
        table_size == LAS_HEADERS_SIZE(VersionStr(version))
        current_pos == IF seekable THEN fixed_end ELSE table_size
        extra_header_len == IF current_pos < header_size THEN header_size - current_pos ELSE 0
        extra_header_bytes == Rd(data, fixed_end, extra_header_len)
        vlr_start == fixed_end + Len(extra_header_bytes)
        vlrs == SubSeq(data, vlr_start + 1, vlr_start + number_of_vlrs)
        vlr_end_pos == vlr_start + VlrsSize(vlrs)
        extra_vlr_len == IF seekable /\ vlr_end_pos < offset_to_point_data
                         THEN offset_to_point_data - vlr_end_pos ELSE 0
        extra_vlr_bytes == Rd(data, vlr_start + number_of_vlrs, extra_vlr_len)
        fmt_id == compressed_id_to_uncompressed(point_format_id)
        resolved == resolve_point_format(fmt_id, point_size, vlrs)
    IN IF F(1) # LAS_FILE_SIGNATURE THEN ReadFailed("Invalid file signature")
       ELSE IF Len(F(4)) # 16 THEN ReadFailed("ValueError")
       ELSE IF NotAscii(rstrip(F(7))) \/ NotAscii(rstrip(F(8))) THEN ReadFailed("UnicodeDecodeError")
       ELSE IF created.kind = "OverflowError" THEN ReadFailed("OverflowError")
       ELSE IF \E k \in 22..33 : Len(F(k)) < 8 THEN ReadFailed("struct.error")
       ELSE IF v14 /\ \E i \in 1..15 : BigGreater(big_from_bytes(F(first14 + 2 + i)), UINT32_MAX)
       THEN ReadFailed("OverflowError")
       ELSE IF ~seekable /\ table_size = -1 THEN ReadFailed("KeyError")
       ELSE IF current_pos > header_size THEN ReadFailed("Incoherent header size")
       ELSE IF vlr_start + number_of_vlrs > Len(data) THEN ReadFailed("VLR read")
       ELSE IF seekable /\ vlr_end_pos > offset_to_point_data
       THEN ReadFailed("Incoherent offset to point data")
       ELSE IF fmt_id \notin PointFormatIds THEN ReadFailed("PointFormatNotSupported")
       ELSE IF point_size # PointFormatSize(resolved.pf) THEN ReadFailed("Incoherent point size")
       ELSE [ok |-> TRUE, err |-> "",
             pfs |-> [P EXCEPT ![ref] = resolved.pf],
             hdr |-> [header EXCEPT
                !.file_source_id = N(2),
                !.global_encoding = N(3),
                !.uuid = bytes_le(F(4)),
                !.version = version,
                !.system_identifier = rstrip(F(7)),
                !.generating_software = rstrip(F(8)),
                !.creation_date = created.date,
                !.offset_to_point_data = offset_to_point_data,
                !.point_count = big_from_bytes(F(IF v14 THEN first14 + 2 ELSE 16)),
                !.number_of_points_by_return =
                    [i \in 1..15 |-> IF v14 THEN big_from_bytes(F(first14 + 2 + i))
                                     ELSE IF i <= 5 THEN big_from_bytes(F(16 + i)) ELSE @[i]],
                !.scales = [i \in 1..3 |-> unpack_d(F(21 + i))],
                !.offsets = [i \in 1..3 |-> unpack_d(F(24 + i))],
                !.maxs = [i \in 1..3 |-> unpack_d(F(26 + 2 * i))],
                !.mins = [i \in 1..3 |-> unpack_d(F(27 + 2 * i))],
                !.start_of_waveform_data_packet_record = IF v13 THEN N(34) ELSE @,
                !.start_of_first_evlr = IF v14 THEN N(first14) ELSE @,
                !.number_of_evlrs = IF v14 THEN N(first14 + 1) ELSE @,
                !.extra_header_bytes = extra_header_bytes,
                !.vlrs = resolved.vlrs,
                !.extra_vlr_bytes = extra_vlr_bytes,
                !.are_points_compressed = is_point_format_compressed(point_format_id),
                !.point_format = ref]]

\* ------------------------------------------------- update and partial_reset

\* A batch of points: each point has X, Y, Z and return_number
Point(X, Y, Z, return_number) == [X |-> X, Y |-> Y, Z |-> Z, return_number |-> return_number]

SeqMax(s) == CHOOSE m \in {s[i] : i \in 1..Len(s)} : \A i \in 1..Len(s) : s[i] <= m
SeqMin(s) == CHOOSE m \in {s[i] : i \in 1..Len(s)} : \A i \in 1..Len(s) : m <= s[i]

\* np.unique(values, return_counts=True): the sorted distinct values, each
\* with the number of times it occurs
RECURSIVE Sorted(_)
Sorted(S) ==
    IF S = {} THEN <<>>
    ELSE LET m == CHOOSE x \in S : \A y \in S : x <= y IN <<m>> \o Sorted(S \ {m})

CountOf(s, v) == Cardinality({i \in 1..Len(s) : s[i] = v})

unique_counts(s) ==
    LET u == Sorted({s[i] : i \in 1..Len(s)})
    IN [i \in 1..Len(u) |-> <<u[i], CountOf(s, u[i])>>]

\* What storing n into a slot of a uint32 array keeps: n modulo 2^32
uint32(n) == big_from_bytes(SubSeq(big_to_bytes(n, 8), 1, 4))

\* The loop of update over the (return_number, count) pairs
RECURSIVE count_returns(_, _)
count_returns(hist, pairs) ==
    IF pairs = <<>> THEN hist
    ELSE LET return_number == Head(pairs)[1]
             count == Head(pairs)[2]
         IN IF return_number = 0 THEN count_returns(hist, Tail(pairs))
            ELSE IF return_number > Len(hist) THEN hist
            ELSE count_returns([hist EXCEPT ![return_number] = uint32(BigAdd(@, count))],
                               Tail(pairs))

\* header.update(points); the max() and min() of an empty batch raise
update(P, H, h, points) ==
    IF points = <<>> THEN Raised("ValueError", P, H)
    ELSE LET hdr == H[h]
             X == [i \in 1..Len(points) |-> points[i].X]
             Y == [i \in 1..Len(points) |-> points[i].Y]
             Z == [i \in 1..Len(points) |-> points[i].Z]
             C == <<X, Y, Z>>
             returns == [i \in 1..Len(points) |-> points[i].return_number]
         IN Returned(P, [H EXCEPT ![h] = [hdr EXCEPT
               !.maxs = [a \in 1..3 |->
                   Max2(hdr.maxs[a], (SeqMax(C[a]) * hdr.scales[a]) + hdr.offsets[a])],
               !.mins = [a \in 1..3 |->
                   Min2(hdr.mins[a], (SeqMin(C[a]) * hdr.scales[a]) + hdr.offsets[a])],
               !.number_of_points_by_return = count_returns(@, unique_counts(returns)),
               !.point_count = BigAdd(@, Len(points))]])

\* A mutant of partial_reset: the EVLR bookkeeping is kept
partial_reset_keeps_evlrs(P, H, h) ==
    Returned(P, [H EXCEPT ![h] = [@ EXCEPT
        !.creation_date = today,
        !.point_count = <<>>,
        !.maxs = Zeros(3),
        !.mins = Zeros(3),
        !.number_of_points_by_return = BigZeros(15)]])

partial_reset(P, H, h) ==
    Returned(P, [H EXCEPT ![h] = [@ EXCEPT
        !.creation_date = today,
        !.point_count = <<>>,
        !.maxs = Zeros(3),
        !.mins = Zeros(3),
        !.number_of_points_by_return = BigZeros(15),
        !.start_of_first_evlr = 0,
        !.number_of_evlrs = 0]])

set_compressed(P, H, h, state) == Returned(P, [H EXCEPT ![h].are_points_compressed = state])

\* ------------------------------------------------------- inputs of the calls

\* The ExtraBytesParams the calls draw from: a scalar, a scaled and offset
\* 3-vector, and a byte array of more than 3 elements
EbScalar == ExtraBytesParams(<<97>>, "u2", 1, <<>>, <<>>, <<>>)
EbVector == ExtraBytesParams(<<98>>, "f8", 3, <<100>>, <<5, 6, 7>>, <<1, 2, 3>>)
EbBytes == ExtraBytesParams(<<99>>, "u1", 4, <<101>>, <<>>, <<>>)
ExtraCatalogue == {EbScalar, EbVector, EbBytes}

RECURSIVE SeqsUpTo(_, _)
SeqsUpTo(S, n) ==
    IF n = 0 THEN {<<>>}
    ELSE LET shorter == SeqsUpTo(S, n - 1)
         IN shorter \cup {Append(s, x) : s \in shorter, x \in S}

ParamLists(Catalogue) == SeqsUpTo(Catalogue, MaxExtraDims) \ {<<>>}

VersionArgs(Vs) == {NoVersion} \cup {GivenVersion(v) : v \in Vs}

\* The PointFormat objects the program holds besides DEFAULT_POINT_FORMAT
OwnPointFormats == {PointFormatObj(r) : r \in {q \in PFRefs \ {0} : pfs[q].alive}}

PointFormatArgs(Fs) ==
    {NoPointFormat, PointFormatObj(0)} \cup {PointFormatInt(f) : f \in Fs} \cup OwnPointFormats

\* The id of the point format an argument denotes (-1 for None)
ArgFmt(point_format) ==
    CASE point_format.kind = "int" -> point_format.v
      [] point_format.kind = "obj" -> pfs[point_format.v].id
      [] OTHER -> -1

\* The record of a call: op on header h, result r, and what it was given
Call(op, h, r, fmt, version, arg) ==
    [op |-> op, h |-> h, ok |-> r.ok, err |-> r.err, fmt |-> fmt, version |-> version,
     arg |-> arg]

NoCall == [op |-> "", h |-> 0, ok |-> TRUE, err |-> "", fmt |-> -1,
           version |-> Version(0, 0), arg |-> <<>>]

\* ------------------------------------------------------------------ actions

\* The history of a header: how many points of each return number update was
\* given since the header was constructed or partially reset (known), or
\* since it came into being some other way
ReturnNumbers == 0..16
FedNothing == [r \in ReturnNumbers |-> 0]
FedFresh == [known |-> TRUE, count |-> FedNothing]
FedUnknown == [known |-> FALSE, count |-> FedNothing]
FedTotal(f) == SeqSum([i \in 1..17 |-> f.count[i - 1]])

\* h = LasHeader(version=..., point_format=...)
Construct(h, version, point_format) ==
    /\ LET r == LasHeader_init(pfs, hdrs, h, version, point_format) IN
        /\ pfs' = Collect(r.pfs, r.hdrs)
        /\ hdrs' = r.hdrs
        /\ last' = Call("LasHeader", h, r, ArgFmt(point_format), version.v, version.given)
        /\ fed' = IF r.ok THEN [fed EXCEPT ![h] = FedFresh] ELSE fed
    /\ UNCHANGED <<stream, today>>

\* h.point_format = PointFormat(id), or an existing PointFormat object
SetPointFormat(h, point_format) ==
    /\ hdrs[h].alive
    /\ point_format.kind # "none"
    /\ LET a == ResolvePF(pfs, point_format)
           r == point_format_setter(a.pfs, hdrs, h, a.ref) IN
        /\ pfs' = Collect(r.pfs, r.hdrs)
        /\ hdrs' = r.hdrs
        /\ last' = Call("point_format", h, r, ArgFmt(point_format), hdrs[h].version, <<>>)
    /\ UNCHANGED <<stream, today, fed>>

\* h.version = version
SetVersion(h, version) ==
    /\ hdrs[h].alive
    /\ LET r == version_setter(pfs, hdrs, h, version) IN
        /\ pfs' = Collect(r.pfs, r.hdrs)
        /\ hdrs' = r.hdrs
        /\ last' = Call("version", h, r, pfs[hdrs[h].point_format].id, version, <<>>)
    /\ UNCHANGED <<stream, today, fed>>

\* h.set_version_and_point_format(version, point_format)
SetVersionAndPointFormat(h, version, point_format) ==
    /\ hdrs[h].alive
    /\ point_format.kind # "none"
    /\ LET a == ResolvePF(pfs, point_format)
           r == set_version_and_point_format(a.pfs, hdrs, h, version, a.ref) IN
        /\ pfs' = Collect(r.pfs, r.hdrs)
        /\ hdrs' = r.hdrs
        /\ last' = Call("set_version_and_point_format", h, r, ArgFmt(point_format), version, <<>>)
    /\ UNCHANGED <<stream, today, fed>>

\* h.add_extra_dims(params); add_extra_dim(param) is the call with one param
AddExtraDims(h, params) ==
    /\ hdrs[h].alive
    /\ Len(pfs[hdrs[h].point_format].extra_dims) + Len(params) <= MaxExtraDims
    /\ LET r == IF Len(params) = 1 THEN add_extra_dim(pfs, hdrs, h, params[1])
                ELSE add_extra_dims(pfs, hdrs, h, params) IN
        /\ pfs' = Collect(r.pfs, r.hdrs)
        /\ hdrs' = r.hdrs
        /\ last' = Call("add_extra_dims", h, r, -1, Version(0, 0), params)
    /\ UNCHANGED <<stream, today, fed>>

\* h.global_encoding.gps_time_type = v
SetGpsTimeType(h, v) ==
    /\ hdrs[h].alive
    /\ hdrs' = [hdrs EXCEPT ![h].global_encoding = gps_time_type_setter(@, v)]
    /\ last' = Call("gps_time_type", h, Returned(pfs, hdrs), -1, Version(0, 0),
                    [mask |-> GPS_TIME_TYPE_MASK, v |-> v])
    /\ UNCHANGED <<pfs, stream, today, fed>>

\* h.global_encoding.<flag> = v, for the flag with this mask
SetFlag(h, mask, v) ==
    /\ hdrs[h].alive
    /\ hdrs' = [hdrs EXCEPT ![h].global_encoding = flag_setter(@, mask, v)]
    /\ last' = Call("flag", h, Returned(pfs, hdrs), -1, Version(0, 0),
                    [mask |-> mask, v |-> v])
    /\ UNCHANGED <<pfs, stream, today, fed>>

\* h.update(points)
Update(h, points) ==
    /\ hdrs[h].alive
    /\ FedTotal(fed[h]) + Len(points) <= MaxPoints
    /\ LET r == update(pfs, hdrs, h, points) IN
        /\ hdrs' = r.hdrs
        /\ last' = Call("update", h, r, -1, Version(0, 0), points)
        /\ fed' = IF r.ok
                  THEN [fed EXCEPT ![h].count =
                          [n \in ReturnNumbers |->
                              @[n] + Cardinality({i \in 1..Len(points) :
                                                     points[i].return_number = n})]]
                  ELSE fed
    /\ UNCHANGED <<pfs, stream, today>>

\* h.partial_reset()
PartialReset(h) ==
    /\ hdrs[h].alive
    /\ LET r == partial_reset(pfs, hdrs, h) IN
        /\ hdrs' = r.hdrs
        /\ last' = Call("partial_reset", h, r, -1, Version(0, 0), <<>>)
        /\ fed' = [fed EXCEPT ![h] = FedFresh]
    /\ UNCHANGED <<pfs, stream, today>>

\* h.set_compressed(state)
SetCompressed(h, state) ==
    /\ hdrs[h].alive
    /\ LET r == set_compressed(pfs, hdrs, h, state) IN
        /\ hdrs' = r.hdrs
        /\ last' = Call("set_compressed", h, r, -1, Version(0, 0), state)
    /\ UNCHANGED <<pfs, stream, today, fed>>

\* The calendar moves on: date.today() returns the next day
NextDay(d) ==
    IF d.yday < DaysIn(d.year) THEN [d EXCEPT !.yday = @ + 1]
    ELSE [year |-> d.year + 1, yday |-> 1]

DayPasses ==
    /\ (IF today.year = 2021 THEN 0 ELSE today.yday) < MaxDays
    /\ today' = NextDay(today)
    /\ last' = NoCall
    /\ UNCHANGED <<pfs, hdrs, stream, fed>>

\* h.write_to(stream, write_vlrs) on an empty stream; the stream remembers the
\* header it was written from
WriteTo(h, write_vlrs) ==
    /\ hdrs[h].alive
    /\ LET r == write_to(pfs, hdrs[h], write_vlrs) IN
        /\ hdrs' = [hdrs EXCEPT ![h] = r.hdr]
        /\ stream' = [data |-> r.data, foreign |-> "", complete |-> r.ok,
                      write_vlrs |-> write_vlrs,
                      vlrs |-> IF write_vlrs THEN hdrs[h].vlrs ELSE <<>>,
                      written |-> [hdr |-> hdrs[h], pf |-> pfs[hdrs[h].point_format]]]
        /\ last' = Call("write_to", h, r, -1, Version(0, 0), write_vlrs)
    /\ UNCHANGED <<pfs, today, fed>>

\* h = LasHeader.read_from(stream, seekable), the stream at its start
ReadFrom(h, seekable) ==
    /\ stream.data # <<>>
    /\ LET r == read_from(pfs, stream.data, seekable, Alloc(pfs)) IN
        /\ hdrs' = IF r.ok THEN [hdrs EXCEPT ![h] = r.hdr] ELSE hdrs
        /\ pfs' = IF r.ok THEN Collect(r.pfs, [hdrs EXCEPT ![h] = r.hdr]) ELSE pfs
        /\ last' = Call("read_from", h, r, -1, Version(0, 0), seekable)
        /\ fed' = IF r.ok THEN [fed EXCEPT ![h] = FedUnknown] ELSE fed
    /\ UNCHANGED <<stream, today>>

\* ------------------------------------------- streams of other producers

\* The stream with the k-th field of the fixed region overwritten
PatchField(data, k, bytes) ==
    LET W == ReadWidths(from_bytes(Field(data, BaseWidths, 6)))
        off == SeqSum(SubSeq(W, 1, k - 1))
    IN SubSeq(data, 1, off) \o bytes \o SubSeq(data, off + Len(bytes) + 1, Len(data))

FieldValue(data, k) ==
    from_bytes(Field(data, ReadWidths(from_bytes(Field(data, BaseWidths, 6))), k))

InsertAt(data, idx, items) == SubSeq(data, 1, idx) \o items \o SubSeq(data, idx + 1, Len(data))

\* Where the fixed region and the VLR section of a written stream end
FixedEnd(data) == SeqSum(ReadWidths(from_bytes(Field(data, BaseWidths, 6))))
VlrEnd(data) == FieldValue(data, 11) + FieldValue(data, 13)

\* (foreign names what differs from the stream as write_to left it)
Foreign(what, data, vlrs) ==
    /\ stream.complete
    /\ stream.write_vlrs
    /\ stream.foreign = ""
    /\ stream' = [stream EXCEPT !.data = data, !.vlrs = vlrs, !.foreign = what]
    /\ last' = NoCall
    /\ UNCHANGED <<pfs, hdrs, today, fed>>

\* a file declaring another point record size
ForeignPointSize(size) ==
    /\ size # FieldValue(stream.data, 15)
    /\ Foreign("point size", PatchField(stream.data, 15, to_bytes(size, 2)), stream.vlrs)

\* a file of version 1.4 whose legacy count and return counts are not zero
ForeignLegacyCounts(n) ==
    Foreign("legacy counts",
            PatchField(PatchField(stream.data, 16, to_bytes(n, 4)), 17,
                       Flatten([i \in 1..5 |-> to_bytes(n + i, 4)])),
            stream.vlrs)

\* a file with one more Extra-Bytes VLR, whose declared point size counts the
\* extra bytes (sized) or does not
ForeignExtraBytesVlr(vlr, sized) ==
    LET d0 == stream.data
        extra == SeqSum([i \in 1..Len(vlr.extra_bytes_structs) |->
                            DimSize(params_of_struct(vlr.extra_bytes_structs[i]))])
        d1 == InsertAt(d0, VlrEnd(d0), <<vlr>>)
        d2 == PatchField(d1, 13, to_bytes(FieldValue(d0, 13) + 1, 4))
        d3 == PatchField(d2, 12, to_bytes(FieldValue(d0, 12) + VlrSize(vlr), 4))
        d4 == IF sized THEN PatchField(d3, 15, to_bytes(FieldValue(d0, 15) + extra, 2)) ELSE d3
    IN Foreign("extra bytes", d4, Append(stream.vlrs, vlr))

\* a file with padding between the fixed region and the VLRs
ForeignHeaderPadding(pad) ==
    LET d0 == stream.data
        d1 == InsertAt(d0, FixedEnd(d0), pad)
        d2 == PatchField(d1, 11, to_bytes(FieldValue(d0, 11) + Len(pad), 2))
        d3 == PatchField(d2, 12, to_bytes(FieldValue(d0, 12) + Len(pad), 4))
    IN Foreign("header padding", d3, stream.vlrs)

\* a file with padding between the VLRs and the point data
ForeignVlrPadding(pad) ==
    LET d0 == stream.data
        d1 == InsertAt(d0, VlrEnd(d0), pad)
        d2 == PatchField(d1, 12, to_bytes(FieldValue(d0, 12) + Len(pad), 4))
    IN Foreign("vlr padding", d2, stream.vlrs)

\* a file whose header size, offset to point data or signature is wrong
ForeignHeaderSize(delta) ==
    Foreign("header size",
            PatchField(stream.data, 11, to_bytes(FieldValue(stream.data, 11) - delta, 2)),
            stream.vlrs)

ForeignOffset(delta) ==
    Foreign("offset",
            PatchField(stream.data, 12, to_bytes(FieldValue(stream.data, 12) - delta, 4)),
            stream.vlrs)

ForeignSignature(b) ==
    Foreign("signature", PatchField(stream.data, 1, <<76, 65, 83, b>>), stream.vlrs)

\* ------------------------------------------------------------ specifications

Day0 == [year |-> 2021, yday |-> 365]

NoStream ==
    [data |-> <<>>, foreign |-> "", complete |-> FALSE, write_vlrs |-> FALSE, vlrs |-> <<>>,
     written |-> [hdr |-> NoHeader, pf |-> NoPF]]

Init ==
    /\ pfs = [r \in PFRefs |-> IF r = 0 THEN PointFormat(3) ELSE NoPF]
    /\ hdrs = [h \in HdrIds |-> NoHeader]
    /\ stream = NoStream
    /\ today = Day0
    /\ last = NoCall
    /\ fed = [h \in HdrIds |-> FedUnknown]

\* One header, every version and every point format id
Next ==
    \/ \E v \in VersionArgs(Versions), f \in PointFormatArgs(PointFormatIds) : Construct(1, v, f)
    \/ \E f \in PointFormatArgs(PointFormatIds) : SetPointFormat(1, f)
    \/ \E v \in Versions : SetVersion(1, v)
    \/ \E v \in Versions, f \in PointFormatArgs(PointFormatIds) : SetVersionAndPointFormat(1, v, f)

Spec == Init /\ [][Next]_vars

\* One header that owns its point format: the calls that change the extra
\* dimensions, on versions 1.2 and 1.4 and point formats 3 and 6
SyncVersions == {Version(1, 2), Version(1, 4)}
SyncFormats == {PointFormatInt(3), PointFormatInt(6)}

NextSync ==
    \/ \E v \in VersionArgs(SyncVersions), f \in SyncFormats : Construct(1, v, f)
    \/ \E f \in SyncFormats \cup OwnPointFormats : SetPointFormat(1, f)
    \/ \E ps \in ParamLists(ExtraCatalogue) : AddExtraDims(1, ps)

SpecSync == Init /\ [][NextSync]_vars

\* Several headers: default-constructed ones and ones given an existing
\* PointFormat object
NextShared ==
    \/ \E h \in HdrIds : Construct(h, NoVersion, NoPointFormat)
    \/ \E h \in HdrIds, f \in {PointFormatInt(3)} \cup OwnPointFormats :
          Construct(h, GivenVersion(Version(1, 2)), f)
    \/ \E h \in HdrIds, f \in {PointFormatInt(3)} \cup OwnPointFormats : SetPointFormat(h, f)
    \/ \E h \in HdrIds, ps \in ParamLists({EbScalar}) : AddExtraDims(h, ps)

SpecShared == Init /\ [][NextShared]_vars

\* A default header whose global encoding holds a raw value: all 32 settings
\* of the five named bits, under several settings of the eleven reserved bits
ReservedPatterns == {0, 1, 1365, 2047}
RawEncodings == {low + (32 * r) : low \in 0..31, r \in ReservedPatterns}

InitGE ==
    /\ pfs = [r \in PFRefs |-> IF r = 0 THEN PointFormat(3) ELSE NoPF]
    /\ today = Day0
    /\ \E raw \in RawEncodings :
          hdrs = [h \in HdrIds |->
                    IF h = 1 THEN [NewHeader(Version(1, 2), 0) EXCEPT !.global_encoding = raw]
                    ELSE NoHeader]
    /\ stream = NoStream
    /\ last = NoCall
    /\ fed = [h \in HdrIds |-> FedUnknown]

\* Assignments to the views, then the header is written to a new stream and
\* read back from it
NextGE ==
    \/ \E v \in {WEEK_TIME, STANDARD} : stream = NoStream /\ SetGpsTimeType(1, v)
    \/ \E mask \in FlagMasks, v \in BOOLEAN : stream = NoStream /\ SetFlag(1, mask, v)
    \/ stream = NoStream /\ WriteTo(1, TRUE)
    \/ last.op = "write_to" /\ ReadFrom(1, TRUE)

SpecGE == InitGE /\ [][NextGE]_vars

\* A header with every field away from its default: version 1.4, point
\* format 6 with one extra dimension, a VLR of another kind, padding blobs,
\* EVLR bookkeeping, and statistics with a return count at the top of uint32
FullPointFormat == add_extra_dimensions(PointFormat(6), <<EbScalar>>)

FullHeader(P, ref) ==
    _sync_extra_bytes_vlr(P,
        [NewHeader(Version(1, 4), ref) EXCEPT
            !.file_source_id = 7,
            !.global_encoding = 17,
            !.uuid = [i \in 1..16 |-> i],
            !.system_identifier = <<83, 89, 83>>,
            !.generating_software = <<71, 69, 78>>,
            !.creation_date = [year |-> 2020, yday |-> 60],
            !.point_count = <<0, 242, 5, 42, 1>>,
            !.scales = <<2, 1, 50>>,
            !.offsets = <<100, 0, -300>>,
            !.maxs = <<1000, 2000, 3000>>,
            !.mins = <<-1000, -2000, -3000>>,
            !.number_of_points_by_return =
                [i \in 1..15 |-> IF i = 1 THEN UINT32_MAX ELSE IF i = 15 THEN <<9>> ELSE <<i>>],
            !.vlrs = <<OtherVlr(34735, 16)>>,
            !.extra_header_bytes = <<1, 2>>,
            !.extra_vlr_bytes = <<3>>,
            !.start_of_waveform_data_packet_record = 4000,
            !.start_of_first_evlr = 5000,
            !.number_of_evlrs = 2,
            !.offset_to_point_data = 700,
            !.are_points_compressed = TRUE])

PointSamples ==
    {Point(-2, 0, 5, 0), Point(3, 1, -1, 1), Point(7, -4, 2, 15), Point(1, 1, 1, 16)}

Batches == SeqsUpTo(PointSamples, MaxBatch)

\* A newly constructed header, or a full one: batches of points are given to
\* update, the header is partially reset or constructed anew, days pass
InitStats ==
    /\ today = Day0
    /\ \E full \in BOOLEAN :
          /\ pfs = [r \in PFRefs |-> IF r = 0 THEN PointFormat(3)
                                     ELSE IF r = 1 /\ full THEN FullPointFormat ELSE NoPF]
          /\ hdrs = [h \in HdrIds |->
                        IF h # 1 THEN NoHeader
                        ELSE IF full THEN FullHeader(pfs, 1)
                        ELSE NewHeader(Version(1, 2), 0)]
          /\ fed = [h \in HdrIds |-> IF full THEN FedUnknown ELSE FedFresh]
    /\ stream = NoStream
    /\ last = NoCall

NextStats ==
    \/ \E points \in Batches : Update(1, points)
    \/ PartialReset(1)
    \/ DayPasses
    \/ Construct(1, NoVersion, NoPointFormat)

SpecStats == InitStats /\ [][NextStats]_vars

\* The largest return number a point of this format can hold: the return
\* number is a 3-bit field in formats 0..5 and a 4-bit field in formats 6..10
max_return_number(point_format_id) == IF point_format_id >= 6 THEN 15 ELSE 7

\* Points of first, fifth, sixth and twelfth return
LegacySamples ==
    {Point(0, 0, 0, 1), Point(0, 0, 0, 5), Point(0, 0, 0, 6), Point(0, 0, 0, 12)}

LegacyFormats == {PointFormatInt(3), PointFormatInt(6)}

\* One header: construction, update with batches its point format can hold,
\* partial_reset, version assignment and set_version_and_point_format
NextLegacy ==
    \/ \E v \in VersionArgs(Versions), f \in {NoPointFormat} \cup LegacyFormats :
          Construct(1, v, f)
    \/ \E points \in SeqsUpTo(LegacySamples, MaxBatch) \ {<<>>} :
          /\ hdrs[1].alive
          /\ \A i \in 1..Len(points) :
                points[i].return_number <= max_return_number(pfs[hdrs[1].point_format].id)
          /\ Update(1, points)
    \/ PartialReset(1)
    \/ \E v \in Versions : SetVersion(1, v)
    \/ \E v \in Versions, f \in LegacyFormats : SetVersionAndPointFormat(1, v, f)

SpecLegacy == Init /\ [][NextLegacy]_vars

\* The headers written and read back: for every version and every point
\* format compatible with it, with up to MaxExtraDims extra dimensions, compressed
\* or not, a header with every field set; headers with point counts around
\* 2^32 and 2^64; and headers at the edges of the data model
CompatiblePairs ==
    {p \in Versions \X PointFormatIds :
        is_version_compatible_with_point_format(p[2], VersionStr(p[1]))}

DimLists == {SubSeq(<<EbBytes, EbVector, EbScalar>>, 1, n) : n \in 0..Min2(MaxExtraDims, 3)}

Chars(n) == [i \in 1..n |-> 64 + i]

\* the fields of a well-formed header with nothing at its default
SetFields(version) ==
    [file_source_id |-> 7,
     global_encoding |-> (2047 * 32) + 17,
     uuid |-> [i \in 1..16 |-> i],
     system_identifier |-> <<83, 89, 83>>,
     generating_software |-> Chars(32),
     creation_date |-> [year |-> 2020, yday |-> 366],
     point_count |-> <<10>>,
     scales |-> <<2, 1, 50>>,
     offsets |-> <<100, 0, -300>>,
     maxs |-> <<1000, 2000, 3000>>,
     mins |-> <<-1000, -2000, -3000>>,
     number_of_points_by_return |->
        [i \in 1..15 |-> IF i <= 5 \/ version.minor >= 4 THEN <<i>> ELSE <<>>],
     vlrs |-> <<OtherVlr(34735, 16)>>,
     start_of_waveform_data_packet_record |-> IF version.minor >= 3 THEN 4000 ELSE 0,
     start_of_first_evlr |-> IF version.minor >= 4 THEN 5000 ELSE 0,
     number_of_evlrs |-> IF version.minor >= 4 THEN 2 ELSE 0]

CountSamples ==
    {<<>>, <<10>>, UINT32_MAX, <<0, 0, 0, 0, 1>>, <<0, 242, 5, 42, 1>>,
     [i \in 1..8 |-> 255], <<0, 0, 0, 0, 0, 0, 0, 0, 1>>}

EdgeFields ==
    {[system_identifier |-> <<65, 0>>],
     [generating_software |-> <<0>>],
     [system_identifier |-> <<>>],
     [system_identifier |-> <<200>>],
     [generating_software |-> Chars(33)],
     [creation_date |-> NoDate],
     [file_source_id |-> 65536],
     [extra_header_bytes |-> <<1, 2>>, extra_vlr_bytes |-> <<3>>],
     [number_of_points_by_return |-> [i \in 1..15 |-> IF i = 10 THEN <<4>> ELSE <<>>]]}

CodecSamples ==
    {[version |-> p[1], fmt |-> p[2], dims |-> d,
      fields |-> [f \in DOMAIN SetFields(p[1]) \cup {"are_points_compressed"} |->
                    IF f = "are_points_compressed" THEN c ELSE SetFields(p[1])[f]]] :
        p \in CompatiblePairs, d \in DimLists, c \in BOOLEAN}
    \cup {[version |-> v, fmt |-> min_point_format_for_version(VersionStr(v)), dims |-> <<>>,
           fields |-> [point_count |-> n]] :
        v \in {Version(1, 2), Version(1, 4)}, n \in CountSamples}
    \cup {[version |-> Version(1, 2), fmt |-> 3, dims |-> <<>>, fields |-> e] : e \in EdgeFields}

\* The header with the given fields set
WithFields(hdr, fields) ==
    [f \in DOMAIN hdr |-> IF f \in DOMAIN fields THEN fields[f] ELSE hdr[f]]

InitCodec ==
    /\ today = Day0
    /\ \E sample \in CodecSamples :
          /\ pfs = [r \in PFRefs |->
                       IF r = 0 THEN PointFormat(3)
                       ELSE IF r = 1
                       THEN add_extra_dimensions(PointFormat(sample.fmt), sample.dims)
                       ELSE NoPF]
          /\ hdrs = [h \in HdrIds |->
                        IF h # 1 THEN NoHeader
                        ELSE _sync_extra_bytes_vlr(pfs,
                                WithFields(NewHeader(sample.version, 1), sample.fields))]
    /\ stream = NoStream
    /\ last = NoCall
    /\ fed = [h \in HdrIds |-> FedUnknown]

\* What another producer's file may hold in place of what write_to wrote
ForeignSizes ==
    {BasePointSize(compressed_id_to_uncompressed(FieldValue(stream.data, 14))),
     FieldValue(stream.data, 15) + 1}

ForeignVlrs == {ExtraBytesVlr(<<eb_struct_of(EbScalar)>>), ExtraBytesVlr(<<>>)}

\* The header is written to a new stream, the stream may be replaced by a
\* file of another producer that differs from it in one respect, and a header
\* is read from the stream
NextCodec ==
    \/ \E write_vlrs \in BOOLEAN : stream = NoStream /\ WriteTo(1, write_vlrs)
    \/ \E seekable \in BOOLEAN : last.op # "read_from" /\ ReadFrom(1, seekable)
    \/ \E size \in ForeignSizes : ForeignPointSize(size)
    \/ ForeignLegacyCounts(7)
    \/ \E vlr \in ForeignVlrs, sized \in BOOLEAN : ForeignExtraBytesVlr(vlr, sized)
    \/ ForeignHeaderPadding(<<1, 2>>)
    \/ ForeignVlrPadding(<<3>>)
    \/ ForeignHeaderSize(1)
    \/ ForeignOffset(1)
    \/ ForeignSignature(0)

SpecCodec == InitCodec /\ [][NextCodec]_vars

\* A header of every version, with up to MaxExtraDims extra dimensions and a VLR
\* of another kind, and no padding blobs
InitPadding ==
    /\ today = Day0
    /\ \E v \in Versions, d \in DimLists :
          /\ pfs = [r \in PFRefs |->
                       IF r = 0 THEN PointFormat(3)
                       ELSE IF r = 1
                       THEN add_extra_dimensions(
                               PointFormat(min_point_format_for_version(VersionStr(v))), d)
                       ELSE NoPF]
          /\ hdrs = [h \in HdrIds |->
                        IF h # 1 THEN NoHeader
                        ELSE _sync_extra_bytes_vlr(pfs,
                                WithFields(NewHeader(v, 1), SetFields(v)))]
    /\ stream = NoStream
    /\ last = NoCall
    /\ fed = [h \in HdrIds |-> FedUnknown]

HeaderPads == {<<1, 2>>, <<9>>}

\* The header is written; the stream is replaced by a file that has padding
\* after the fixed region or after the VLRs; a header is read from it on a
\* seekable stream, written to a new stream with its VLRs, and read again
NextPadding ==
    \/ (stream = NoStream \/ (last.op = "read_from" /\ last.ok)) /\ WriteTo(1, TRUE)
    \/ \E pad \in HeaderPads : ForeignHeaderPadding(pad)
    \/ ForeignVlrPadding(<<3>>)
    \/ stream.complete /\ last.op # "read_from" /\ ReadFrom(1, TRUE)

SpecPadding == InitPadding /\ [][NextPadding]_vars

\* ------------------------------------------------------------------ claims

GateOps == {"LasHeader", "point_format", "version", "set_version_and_point_format"}

Compatible(hdr) ==
    is_version_compatible_with_point_format(pfs[hdr.point_format].id, VersionStr(hdr.version))

\* The Extra-Bytes VLRs of a header, and the extra dimensions of its point format
EbVlrs(hdr) == VlrGet(hdr.vlrs, "ExtraBytesVlr")
ExtraDims(hdr) == pfs[hdr.point_format].extra_dims

\* The sub-record encodes the descriptor: name, description, type tag (0 with
\* options = element count for more than 3 unsigned bytes) and presence flags
Encodes(st, dim) ==
    /\ st.name = dim.name
    /\ st.description = dim.description
    /\ IF dim.num_elements > 3 /\ dim.type = "u1"
       THEN st.data_type = 0 /\ st.options = dim.num_elements
       ELSE st.data_type = ScalarIndex(dim.type) + 10 * (dim.num_elements - 1)
    /\ st.scale_is_relevant = (dim.scales # <<>>)
    /\ st.offset_is_relevant = (dim.offsets # <<>>)

ExtraBytesInvariant(hdr) ==
    /\ Len(EbVlrs(hdr)) = IF ExtraDims(hdr) = <<>> THEN 0 ELSE 1
    /\ ExtraDims(hdr) # <<>> =>
          LET structs == EbVlrs(hdr)[1].extra_bytes_structs IN
             /\ Len(structs) = Len(ExtraDims(hdr))
             /\ \A i \in 1..Len(structs) : Encodes(structs[i], ExtraDims(hdr)[i])

\* C1: a constructor, point_format, version or set_version_and_point_format
\* call given a (version, point format id) pair raises the incompatibility
\* error exactly when the oracle rejects the pair; a call that raises leaves
\* the headers and the point formats as they were; and after every call each
\* header's point format id is compatible with its version.
C1_CompatibilityGate ==
    [][last'.op \in GateOps =>
          /\ (last'.fmt # -1 /\ (last'.op = "LasHeader" => last'.arg)) =>
                (last'.ok <=> is_version_compatible_with_point_format(
                                  last'.fmt, VersionStr(last'.version)))
          /\ ~last'.ok => /\ last'.err = "IncompatibleFormat"
                          /\ hdrs' = hdrs
                          /\ pfs' = pfs
          /\ \A h \in HdrIds : hdrs'[h].alive => Compatible(hdrs[h])'
      ]_vars

\* C1 witness: a rejected set_version_and_point_format on an existing header
\* whose version is below 1.4
C1_Witness ==
    /\ last.op = "set_version_and_point_format"
    /\ ~last.ok
    /\ hdrs[1].alive
    /\ hdrs[1].version.minor < 4

\* C2: on one header owning its point format, after any sequence of
\* add_extra_dims / add_extra_dim calls and point_format assignments the VLR
\* list holds exactly one Extra-Bytes VLR when the point format has extra
\* dimensions and none otherwise, with one sub-record per descriptor, in
\* order, encoding it.
C2_ExtraBytesSync == hdrs[1].alive => ExtraBytesInvariant(hdrs[1])

\* C2 witness: after a second add_extra_dims call the one Extra-Bytes VLR has
\* two sub-records, the second the byte array with tag 0
C2_Witness ==
    /\ last.op = "add_extra_dims"
    /\ hdrs[1].alive
    /\ Len(ExtraDims(hdrs[1])) = 2
    /\ Len(last.arg) = 1
    /\ Len(EbVlrs(hdrs[1])) = 1
    /\ EbVlrs(hdrs[1])[1].extra_bytes_structs[2].data_type = 0
    /\ EbVlrs(hdrs[1])[1].extra_bytes_structs[1].scale_is_relevant

\* C10: with several headers, after any interleaving of add_extra_dims and
\* point_format assignments every header satisfies the Extra-Bytes invariant,
\* and a header newly built with LasHeader() has no extra dimensions and no
\* Extra-Bytes VLR.
C10_HeadersIsolated ==
    /\ \A h \in HdrIds : hdrs[h].alive => ExtraBytesInvariant(hdrs[h])
    /\ (last.op = "LasHeader" /\ last.ok /\ last.fmt = -1 /\ ~last.arg) =>
          /\ ExtraDims(hdrs[last.h]) = <<>>
          /\ EbVlrs(hdrs[last.h]) = <<>>

\* The header a stream was written from and its point format, and the header
\* read_from returned and its point format
Written == stream.written.hdr
WrittenFormat == stream.written.pf
ReadBack == hdrs[1]
ReadBackFormat == pfs[hdrs[1].point_format]

\* The widths of the fixed region of the stream
StreamWidths == ReadWidths(Written.version.minor)

Ascii32(s) == ~NotAscii(s) /\ Len(s) <= 32

NoTrailingNul(s) == s = <<>> \/ s[Len(s)] # 0

\* The fields written before the point count fit their fields
Encodable(hdr) ==
    /\ hdr.file_source_id <= 65535
    /\ hdr.global_encoding <= 65535
    /\ ~NotAscii(hdr.system_identifier)
    /\ ~NotAscii(hdr.generating_software)

\* The data-model invariants of a header: identifiers within their 16 bits,
\* ASCII identifier strings of at most 32 bytes, a set creation date, a point
\* count within the version's width, histogram slots 5..14 zero when
\* minor < 4, empty padding blobs
DataModel(hdr) ==
    /\ Encodable(hdr)
    /\ Ascii32(hdr.system_identifier)
    /\ Ascii32(hdr.generating_software)
    /\ hdr.creation_date # NoDate
    /\ IF hdr.version.minor < 4 THEN ~BigGreater(hdr.point_count, UINT32_MAX)
       ELSE Len(hdr.point_count) <= 8
    /\ hdr.version.minor < 4 => \A i \in 6..15 : hdr.number_of_points_by_return[i] = <<>>
    /\ hdr.extra_header_bytes = <<>>
    /\ hdr.extra_vlr_bytes = <<>>

\* The header read back equals the written one in what the round trip keeps
RoundTripEqual ==
    /\ ReadBack.version = Written.version
    /\ ReadBackFormat.id = WrittenFormat.id
    /\ ReadBackFormat.extra_dims = WrittenFormat.extra_dims
    /\ ReadBack.are_points_compressed = Written.are_points_compressed
    /\ ReadBack.file_source_id = Written.file_source_id
    /\ ReadBack.global_encoding = Written.global_encoding
    /\ ReadBack.uuid = Written.uuid
    /\ ReadBack.system_identifier = Written.system_identifier
    /\ ReadBack.generating_software = Written.generating_software
    /\ ReadBack.creation_date = Written.creation_date
    /\ ReadBack.point_count = Written.point_count
    /\ ReadBack.number_of_points_by_return = Written.number_of_points_by_return
    /\ ReadBack.scales = Written.scales
    /\ ReadBack.offsets = Written.offsets
    /\ ReadBack.maxs = Written.maxs
    /\ ReadBack.mins = Written.mins
    /\ ReadBack.vlrs = Written.vlrs
    /\ Written.version.minor >= 3 =>
          ReadBack.start_of_waveform_data_packet_record
              = Written.start_of_waveform_data_packet_record
    /\ Written.version.minor >= 4 =>
          /\ ReadBack.start_of_first_evlr = Written.start_of_first_evlr
          /\ ReadBack.number_of_evlrs = Written.number_of_evlrs

\* write_to(h) succeeds, and read_from on the seekable stream it wrote
\* succeeds and returns an equal header, for the headers h satisfying Given
RoundTrip(Given(_)) ==
    /\ (last.op = "write_to" /\ stream.write_vlrs /\ Given(Written)) => last.ok
    /\ (last.op = "read_from" /\ last.arg /\ stream.write_vlrs /\ stream.foreign = ""
          /\ Given(Written)) =>
            /\ last.ok
            /\ RoundTripEqual

DataModelAndNoTrailingNul(hdr) ==
    /\ DataModel(hdr)
    /\ NoTrailingNul(hdr.system_identifier)
    /\ NoTrailingNul(hdr.generating_software)

\* C3 as stated: for every version, every point format compatible with it
\* and every header satisfying the data-model invariants, write_to followed
\* by read_from on a seekable stream succeeds and yields an equal header.
C3_AsStated == RoundTrip(DataModel)

\* C3: for every version in {1.1, 1.2, 1.3, 1.4}, every point format
\* compatible with it (with or without extra dimensions, compressed or not)
\* and every header satisfying the data-model invariants whose identifier
\* strings do not end in a NUL character, write_to followed by read_from on a
\* seekable stream succeeds and yields a header equal in version, point
\* format id and extra dimensions, compression flag, file-source id, global
\* encoding, UUID, identifier strings, creation date, point count, return
\* histogram, scales, offsets, maxs, mins, VLR list, waveform offset
\* (minor >= 3) and EVLR offset and count (minor >= 4).
C3_RoundTrip == RoundTrip(DataModelAndNoTrailingNul)

\* C3 witness: a compressed version 1.4 header of point format 8 with two
\* extra dimensions and every field set has been written and read back equal
C3_Witness ==
    /\ last.op = "read_from"
    /\ last.ok
    /\ last.arg
    /\ stream.foreign = ""
    /\ stream.write_vlrs
    /\ DataModel(Written)
    /\ ReadBack.version = Version(1, 4)
    /\ ReadBackFormat.id = 8
    /\ Len(ReadBackFormat.extra_dims) = 2
    /\ ReadBack.are_points_compressed
    /\ ReadBack.maxs = <<1000, 2000, 3000>>
    /\ ReadBack.mins = <<-1000, -2000, -3000>>
    /\ Len(ReadBack.vlrs) = 2
    /\ RoundTripEqual

\* The index of the 8-byte point count among the reads of a version 1.4
\* header: after the waveform offset, the EVLR offset and the EVLR count
Count64 == Len(BaseWidths) + 4

\* C4: for minor < 4, write_to fails with the point-count-overflow error
\* whenever point_count > 2^32 - 1 and otherwise writes the count in the
\* 4-byte legacy field, which read_from returns; for minor >= 4, write_to
\* writes zero into the legacy count and the five legacy return counts and
\* the count into the 8-byte field, and read_from returns the 8-byte value
\* whatever the legacy field holds; so a count that was written is read back
\* as it was.
C4_PointCountWidth ==
    /\ (last.op = "write_to" /\ Encodable(Written)) =>
          IF Written.version.minor < 4
          THEN IF BigGreater(Written.point_count, UINT32_MAX)
               THEN ~last.ok /\ last.err = "PointCountOverflow"
               ELSE /\ last.ok
                    /\ Field(stream.data, StreamWidths, 16) = big_to_bytes(Written.point_count, 4)
          ELSE Len(Written.point_count) <= 8 =>
                 /\ last.ok
                 /\ \A k \in 16..21 : Field(stream.data, StreamWidths, k) = Zeros(4)
                 /\ Field(stream.data, StreamWidths, Count64)
                        = big_to_bytes(Written.point_count, 8)
    /\ (last.op = "read_from" /\ last.ok) =>
          ReadBack.point_count =
              big_from_bytes(Field(stream.data, StreamWidths,
                                   IF Written.version.minor < 4 THEN 16 ELSE Count64))
    /\ (last.op = "read_from" /\ last.ok /\ stream.complete /\ stream.write_vlrs
          /\ (stream.foreign = ""
                \/ (stream.foreign = "legacy counts" /\ Written.version.minor >= 4))) =>
          ReadBack.point_count = Written.point_count

\* C4 witness: 5,000,000,000 points are read back from a version 1.4 stream
\* whose legacy count holds 7
C4_Witness ==
    /\ last.op = "read_from"
    /\ last.ok
    /\ stream.foreign = "legacy counts"
    /\ Written.version.minor = 4
    /\ FieldValue(stream.data, 16) = 7
    /\ ReadBack.point_count = <<0, 242, 5, 42, 1>>
    /\ Written.point_count = <<0, 242, 5, 42, 1>>

\* The errors read_from raises at the signature, header-size and offset checks
EarlierChecks ==
    {"Invalid file signature", "Incoherent header size", "Incoherent offset to point data"}

\* C5: for every stream that passes the signature, header-size and offset
\* checks, read_from resolves the point format from the uncompressed id: if an
\* Extra-Bytes VLR is present and the declared point size equals the base
\* format size, the VLR is discarded and no extra dimension added, otherwise
\* each of its descriptors is applied in order; read_from returns a header
\* exactly when the declared point size equals the resolved format's size and
\* fails with the incoherent-point-size error otherwise; a returned header
\* has an Extra-Bytes VLR if and only if its point format has an extra
\* dimension.
C5_PointSizeCoherence ==
    (last.op = "read_from" /\ stream.complete /\ stream.write_vlrs
        /\ last.err \notin EarlierChecks) =>
      LET declared == FieldValue(stream.data, 15)
          fmt_id == compressed_id_to_uncompressed(FieldValue(stream.data, 14))
          eb == VlrGet(stream.vlrs, "ExtraBytesVlr")
          spurious == eb # <<>> /\ declared = BasePointSize(fmt_id)
          dims == IF eb = <<>> \/ spurious THEN <<>> ELSE type_of_extra_dims(eb[1])
          kept == IF spurious THEN VlrExtract(stream.vlrs, "ExtraBytesVlr") ELSE stream.vlrs
          size == BasePointSize(fmt_id) + SeqSum([i \in 1..Len(dims) |-> DimSize(dims[i])])
      IN IF declared = size
         THEN /\ last.ok
              /\ ReadBackFormat.id = fmt_id
              /\ ReadBackFormat.extra_dims = dims
              /\ ReadBack.vlrs = kept
              /\ (EbVlrs(ReadBack) # <<>>) <=> (ReadBackFormat.extra_dims # <<>>)
         ELSE /\ ~last.ok
              /\ last.err = "Incoherent point size"

\* C5 witness: a header without extra dimensions and without Extra-Bytes VLR
\* is returned from a stream that holds an Extra-Bytes VLR and declares the
\* base point size
C5_Witness ==
    /\ last.op = "read_from"
    /\ last.ok
    /\ stream.foreign = "point size"
    /\ VlrGet(stream.vlrs, "ExtraBytesVlr") # <<>>
    /\ EbVlrs(ReadBack) = <<>>
    /\ ReadBackFormat.extra_dims = <<>>
    /\ Len(ReadBack.vlrs) = 1

\* The bits of a raw value outside a mask
Outside(value, mask) == BitAnd(value, 65535 - mask)

\* C6: after assigning v to a named view of the global encoding (gps_time_type
\* or one of the four boolean flags) the view's getter returns v, whatever
\* the view held before.
C6_SetGetLaw ==
    /\ last.op = "flag" => flag_getter(hdrs[1].global_encoding, last.arg.mask) = last.arg.v
    /\ last.op = "gps_time_type" => gps_time_type(hdrs[1].global_encoding) = last.arg.v

\* C7: an assignment to a named view of the global encoding changes no bit
\* outside the view's mask; write_to leaves the raw value as it is and puts
\* its 16 bits on the stream, and read_from returns the raw 16-bit value that
\* was written, reserved bits included.
C7_BitIsolation ==
    [][/\ last'.op \in {"flag", "gps_time_type"} =>
            Outside(hdrs'[1].global_encoding, last'.arg.mask)
                = Outside(hdrs[1].global_encoding, last'.arg.mask)
       /\ last'.op = "write_to" =>
            /\ last'.ok
            /\ hdrs'[1].global_encoding = hdrs[1].global_encoding
            /\ from_bytes(Field(stream'.data, BaseWidths, 3)) = hdrs[1].global_encoding
       /\ last'.op = "read_from" =>
            /\ last'.ok
            /\ hdrs'[1].global_encoding = stream.written.hdr.global_encoding
      ]_vars

\* C7 witness: a raw value with reserved bits set is read back after the wkt
\* flag was set on it and it was written
C7_Witness ==
    /\ last.op = "read_from"
    /\ last.ok
    /\ hdrs[1].global_encoding = 2047 * 32 + WKT_MASK + GPS_TIME_TYPE_MASK
    /\ stream.written.hdr.global_encoding = hdrs[1].global_encoding

\* The number n >= 0 as a BigNat
Big(n) == BigAdd(<<>>, n)

\* The points of a batch with return number r
Returning(points, r) == Cardinality({i \in 1..Len(points) : points[i].return_number = r})

\* What one update call on header h does to the statistics
UpdateStep(h, points) ==
    /\ \A r \in 1..15 :
          hdrs'[h].number_of_points_by_return[r] =
              BigAdd(hdrs[h].number_of_points_by_return[r], Returning(points, r))
    /\ hdrs'[h].point_count = BigAdd(hdrs[h].point_count, Len(points))

\* After updates that follow a construction or partial_reset, the statistics
\* are the totals of what was fed
UpdateTotals ==
    \A h \in HdrIds :
        (hdrs[h].alive /\ fed[h].known) =>
            /\ hdrs[h].point_count = Big(FedTotal(fed[h]))
            /\ \A r \in 1..15 : hdrs[h].number_of_points_by_return[r] = Big(fed[h].count[r])

\* C8: for every header state and every non-empty batch, update(batch) adds
\* to histogram slot r-1 the number of points in the batch with return number
\* r, for every r in 1..15, adds nothing for return number 0 or above 15, and
\* increases point_count by the batch size; after updates following
\* construction or partial_reset, point_count is the sum of the batch sizes
\* and each slot the total number of points with that return number.
C8_Accumulation ==
    /\ [][(last'.op = "update" /\ last'.ok) => UpdateStep(last'.h, last'.arg)]_vars
    /\ []UpdateTotals

\* The fields partial_reset is said to leave alone, creation_date aside
KeptFields ==
    {"file_source_id", "uuid", "system_identifier", "generating_software", "global_encoding",
     "version", "point_format", "scales", "offsets", "vlrs", "extra_header_bytes",
     "extra_vlr_bytes", "offset_to_point_data", "are_points_compressed",
     "start_of_waveform_data_packet_record"}

PartialResetStep(h) ==
    /\ hdrs'[h].point_count = <<>>
    /\ hdrs'[h].maxs = Zeros(3)
    /\ hdrs'[h].mins = Zeros(3)
    /\ hdrs'[h].number_of_points_by_return = BigZeros(15)
    /\ hdrs'[h].start_of_first_evlr = 0
    /\ hdrs'[h].number_of_evlrs = 0
    /\ \A f \in KeptFields : hdrs'[h][f] = hdrs[h][f]
    /\ pfs' = pfs

\* C9 as stated: partial_reset zeroes the statistics and the EVLR bookkeeping
\* and leaves every other field, the creation date among them, unchanged.
C9_AsStated ==
    [][last'.op = "partial_reset" =>
          /\ PartialResetStep(last'.h)
          /\ hdrs'[last'.h].creation_date = hdrs[last'.h].creation_date]_vars

\* C9: partial_reset sets point_count, maxs, mins, the 15 histogram slots,
\* start_of_first_evlr and number_of_evlrs to zero, sets the creation date to
\* today, and leaves every other field and the point format unchanged.
C9_PartialResetFrame ==
    [][last'.op = "partial_reset" =>
          /\ PartialResetStep(last'.h)
          /\ hdrs'[last'.h].creation_date = today]_vars

\* C9 witness: a full header created on an earlier day has been reset
C9_Witness ==
    /\ last.op = "partial_reset"
    /\ hdrs[1].creation_date = today
    /\ today # Day0
    /\ hdrs[1].extra_header_bytes # <<>>
    /\ hdrs[1].vlrs # <<>>
    /\ hdrs[1].number_of_evlrs = 0
    /\ hdrs[1].file_source_id = 7

\* C11: in every state reachable by construction, update, partial_reset,
\* version assignment and set_version_and_point_format, a header whose version
\* minor is below 4 has number_of_points_by_return[i] zero for every i in 5..14.
C11_LegacyHistogram ==
    (hdrs[1].alive /\ hdrs[1].version.minor < 4) =>
        \A i \in 5..14 : hdrs[1].number_of_points_by_return[i + 1] = <<>>

\* C12: update completes without raising for every header state and every
\* finite batch of points, the batch with zero points included, and afterwards
\* each max is not below its previous value and each min not above it.
UpdateTotalStep(h) ==
    /\ last'.ok
    /\ \A a \in 1..3 : /\ hdrs'[h].maxs[a] >= hdrs[h].maxs[a]
                       /\ hdrs'[h].mins[a] <= hdrs[h].mins[a]

C12_UpdateTotal == [][last'.op = "update" => UpdateTotalStep(last'.h)]_vars

\* C13: for a header read from a seekable stream that has padding bytes after
\* the fixed region (extra_header_bytes) or after the VLR section
\* (extra_vlr_bytes), write_to with write_vlrs=True writes a header size and a
\* point-data offset that include them, and read_from of the written bytes
\* yields the same two blobs and the same offset_to_point_data.
Padded(hdr) == hdr.alive /\ (hdr.extra_header_bytes # <<>> \/ hdr.extra_vlr_bytes # <<>>)

RewrittenPadded == stream.foreign = "" /\ stream.write_vlrs /\ Padded(Written)

C13_PaddingFidelity ==
    /\ (RewrittenPadded /\ last.op = "write_to") =>
          /\ last.ok
          /\ FieldValue(stream.data, 11) =
                LAS_HEADERS_SIZE(VersionStr(Written.version)) + Len(Written.extra_header_bytes)
          /\ FieldValue(stream.data, 12) = Written.offset_to_point_data
    /\ (RewrittenPadded /\ last.op = "read_from") =>
          /\ last.ok
          /\ ReadBack.extra_header_bytes = Written.extra_header_bytes
          /\ ReadBack.extra_vlr_bytes = Written.extra_vlr_bytes
          /\ ReadBack.offset_to_point_data = Written.offset_to_point_data

====
